---- MODULE Spec2Model ----
(***************************************************************************)
(* A model of remarkable-highlights: the run merger of                     *)
(* extract_text_highlights, the operator tokenizer, the highlighter stroke *)
(* interpreter, the highlight classifier and the per-page accumulation of  *)
(* extract_highlights.  Each component has its own specification; the      *)
(* variables of the other components rest at their idle values.            *)
(***************************************************************************)
EXTENDS Integers, Sequences, FiniteSets, TLC

VARIABLES
    \* extract_text_highlights (extract.py 131-173)
    words,          \* per word of the page: the value of is_highlighted, in page order
    max_skip_len,   \* the max_skip_len argument
    rm_pc,          \* position in the function body
    runs,           \* line 156
    marked_skips,   \* line 163
    merged_runs,    \* line 167
    rm_result,      \* line 173, the returned list of strings
    \* tokenize_graphics (parsing.py 92-109)
    raw,            \* raw_graphics_content, a sequence of one-character pieces
    tokens,         \* raw_graphics_content.decode("utf-8").split()
    tk_pc,          \* position in the generator
    tk_pos,         \* number of tokens the for loop has taken
    arg_stack,      \* line 103
    tk_out,         \* the records yielded so far, in order
    \* highlighter_lines (parsing.py 119-204)
    hl_pc,          \* "loop" while the for loop runs, "raised" after an exception, "done" at its end
    op,             \* line 159, the operator of the record taken last
    args,           \* line 159, its arguments
    current_line,   \* line 154
    width,          \* line 155
    cap_style,      \* line 156
    join_style,     \* line 157
    yielded,        \* the Shapes yielded while the last record was processed (none or one)
    n_shapes,       \* the number of Shapes yielded so far
    raised,         \* the exception that ended the generator, "" if none
    rg_seen,        \* history: a matching RG has been processed
    rg_since_S,     \* history: a matching RG has been processed and no S since
    \* classify_highlights (extract.py 54-64)
    cl_pc,              \* position in the function
    polys,              \* the polys argument
    clipping_area_threshold,
    cl_pos,             \* number of polys the for loop has taken
    text_highlights,    \* line 56
    selection_highlights,   \* line 57
    \* extract_highlights (extract.py 176-219)
    ex_pc,              \* "loop", "raised" or "returned"
    word_selection_method,  \* the policy name passed in
    ex_max_skip_len,    \* the max_skip_len passed in
    clip_area_threshold,    \* the clip_area_threshold passed in
    page_no,            \* number of pages the for loop has taken; page.number + 1 of the last
    page_polys,         \* the merged highlight polys of the page taken last
    page_text_highlights,   \* line 184
    page_clips,         \* line 185
    ex_raised           \* the exception that left the function, "" if none

runVars == <<words, max_skip_len, rm_pc, runs, marked_skips, merged_runs, rm_result>>

tokVars == <<raw, tokens, tk_pc, tk_pos, arg_stack, tk_out>>

hlVars == <<hl_pc, op, args, current_line, width, cap_style, join_style,
           yielded, n_shapes, raised, rg_seen, rg_since_S>>

clVars == <<cl_pc, polys, clipping_area_threshold, cl_pos, text_highlights,
           selection_highlights>>

exVars == <<ex_pc, word_selection_method, ex_max_skip_len, clip_area_threshold, page_no, page_polys,
           page_text_highlights, page_clips, ex_raised>>

vars == <<runVars, tokVars, hlVars, clVars, exVars>>

otherThanRuns == <<tokVars, hlVars, clVars, exVars>>
otherThanTok == <<runVars, hlVars, clVars, exVars>>
otherThanHl == <<runVars, tokVars, clVars, exVars>>
otherThanCl == <<runVars, tokVars, hlVars, exVars>>
otherThanEx == <<runVars, tokVars, hlVars, clVars>>

\* ---------------------------------------------------------------- bounds
MaxWords == 7
MaxSkip == 3
MaxRaw == 7
MaxPoints == 2
MaxShapes == 1
MaxPolys == 2
MaxHoles == 2
MaxPages == 2
MaxPageWords == 1

\* ---------------------------------------------------------------- helpers
RECURSIVE Flatten(_)
\* itertools.chain.from_iterable over a sequence of sequences
Flatten(ss) ==
    IF ss = <<>> THEN <<>> ELSE Head(ss) \o Flatten(Tail(ss))

\* All sequences over S of length 0..n
SeqsUpTo(S, n) == UNION {[1..k -> S] : k \in 0..n}

\* Python's None and a value that is not None, for a variable that may hold
\* either: the empty tuple, and the one-element tuple of the value
None == <<>>
Some(v) == <<v>>
Val(o) == o[1]

\* ---------------------------------------------------------------- idle components
\* The state of a component no call of which is in progress
RunsIdle ==
    /\ words = <<>>
    /\ max_skip_len = 0
    /\ rm_pc = "idle"
    /\ runs = <<>>
    /\ marked_skips = <<>>
    /\ merged_runs = <<>>
    /\ rm_result = <<>>

TokIdle ==
    /\ raw = <<>>
    /\ tokens = <<>>
    /\ tk_pc = "idle"
    /\ tk_pos = 0
    /\ arg_stack = <<>>
    /\ tk_out = <<>>

HlIdle ==
    /\ hl_pc = "idle"
    /\ op = ""
    /\ args = <<>>
    /\ current_line = Some(<<>>)
    /\ width = None
    /\ cap_style = None
    /\ join_style = None
    /\ yielded = <<>>
    /\ n_shapes = 0
    /\ raised = ""
    /\ rg_seen = FALSE
    /\ rg_since_S = FALSE

ClIdle ==
    /\ cl_pc = "idle"
    /\ polys = <<>>
    /\ clipping_area_threshold = 0
    /\ cl_pos = 0
    /\ text_highlights = <<>>
    /\ selection_highlights = <<>>

ExIdle ==
    /\ ex_pc = "idle"
    /\ word_selection_method = ""
    /\ ex_max_skip_len = 0
    /\ clip_area_threshold = 0
    /\ page_no = 0
    /\ page_polys = <<>>
    /\ page_text_highlights = [p \in 1..MaxPages |-> None]
    /\ page_clips = [p \in 1..MaxPages |-> None]
    /\ ex_raised = ""

\* ---------------------------------------------------------------- tokenizer
\* parsing.py 14-89
PATH_OPS ==
    {"w", "J", "j", "M", "d", "ri", "i", "gs", "q", "Q", "cm", "m", "l", "c", "v",
     "y", "h", "re", "S", "s", "f", "F", "f*", "B", "B*", "b", "b*", "n", "W",
     "W*", "BT", "ET", "Tc", "Tw", "Tz", "TL", "Tf", "Tr", "Ts", "Td", "TD",
     "Tm", "T*", "Tj", "TJ", "'", "\"", "d0", "d1", "CS", "cs", "SC", "SCN",
     "sc", "scn", "G", "g", "RG", "rg", "K", "k", "sh", "BI", "ID", "EI", "Do",
     "MP", "DP", "BMC", "BDC", "EMC", "BX", "EX"}

\* The one-character pieces a modelled content stream is made of: a blank, a
\* digit and two letters, which spell the operators G and RG, the literal 1
\* and non-operator words such as R, GR or 1G
WS == " "
Pieces == {WS, "1", "R", "G"}

RECURSIVE SplitAcc(_, _, _)
\* str.split(): maximal stretches of non-blank characters; cur is the word
\* being read, acc the words read
SplitAcc(s, cur, acc) ==
    IF s = <<>> THEN (IF cur = "" THEN acc ELSE Append(acc, cur))
    ELSE IF Head(s) = WS
         THEN SplitAcc(Tail(s), "", IF cur = "" THEN acc ELSE Append(acc, cur))
         ELSE SplitAcc(Tail(s), cur \o Head(s), acc)

\* line 104
Split(s) == SplitAcc(s, "", <<>>)

\* StackAfterYield with the clear forgotten
StackAfterYield_NotCleared(stack) == stack

\* line 107, the stack after a record is yielded
StackAfterYield(stack) == <<>>

\* A call of tokenize_graphics on any content of at most MaxRaw characters
InitTok ==
    /\ raw \in SeqsUpTo(Pieces, MaxRaw)
    /\ tokens = <<>>
    /\ tk_pc = "split"
    /\ tk_pos = 0
    /\ arg_stack = <<>>
    /\ tk_out = <<>>
    /\ RunsIdle
    /\ HlIdle
    /\ ClIdle
    /\ ExIdle

\* lines 103-104
TokStart ==
    /\ tk_pc = "split"
    /\ tokens' = Split(raw)
    /\ tk_pc' = "loop"
    /\ UNCHANGED <<raw, tk_pos, arg_stack, tk_out>>
    /\ UNCHANGED otherThanTok

\* lines 105-107: the next token is an operator
TokYield ==
    /\ tk_pc = "loop"
    /\ tk_pos < Len(tokens)
    /\ LET token == tokens[tk_pos + 1]
       IN /\ token \in PATH_OPS
          /\ tk_out' = Append(tk_out, <<token, arg_stack>>)
          /\ arg_stack' = StackAfterYield(arg_stack)
    /\ tk_pos' = tk_pos + 1
    /\ UNCHANGED <<raw, tokens, tk_pc>>
    /\ UNCHANGED otherThanTok

\* lines 108-109: the next token is a literal
TokPush ==
    /\ tk_pc = "loop"
    /\ tk_pos < Len(tokens)
    /\ LET token == tokens[tk_pos + 1]
       IN /\ token \notin PATH_OPS
          /\ arg_stack' = Append(arg_stack, token)
    /\ tk_pos' = tk_pos + 1
    /\ UNCHANGED <<raw, tokens, tk_pc, tk_out>>
    /\ UNCHANGED otherThanTok

\* the for loop is exhausted and the generator returns
TokEnd ==
    /\ tk_pc = "loop"
    /\ tk_pos = Len(tokens)
    /\ tk_pc' = "done"
    /\ UNCHANGED <<raw, tokens, tk_pos, arg_stack, tk_out>>
    /\ UNCHANGED otherThanTok

NextTok ==
    \/ TokStart
    \/ TokYield
    \/ TokPush
    \/ TokEnd

SpecTok == InitTok /\ [][NextTok]_vars

\* ---------------------------------------------------------------- claims on the tokenizer
\* The number of operator tokens among the first p tokens
OpsUpTo(p) == Cardinality({q \in 1..p : tokens[q] \in PATH_OPS})

\* The position of the k-th operator token (0 for k = 0)
KthOp(k) ==
    IF k = 0 THEN 0
    ELSE CHOOSE p \in 1..Len(tokens) : tokens[p] \in PATH_OPS /\ OpsUpTo(p) = k

\* C7: the output has one record per occurrence of a known operator among the
\* tokens taken so far, in input order; the arguments of a record are exactly
\* the tokens between the previous operator (or the start) and its own; the
\* stack is empty right after a record is yielded; literals after the last
\* operator produce no record.
C7_OneRecordPerOperator ==
    tk_pc \in {"loop", "done"} =>
        /\ tk_pc = "done" => tk_pos = Len(tokens)
        /\ Len(tk_out) = OpsUpTo(tk_pos)
        /\ \A k \in 1..Len(tk_out) :
              /\ tk_out[k][1] = tokens[KthOp(k)]
              /\ tk_out[k][2] = SubSeq(tokens, KthOp(k - 1) + 1, KthOp(k) - 1)
        /\ (tk_pos > 0 /\ tokens[tk_pos] \in PATH_OPS) => arg_stack = <<>>

\* Two records, the second with an argument, then a literal that no operator
\* follows
C7_Witness ==
    /\ tk_pc = "done"
    /\ Len(tk_out) = 2
    /\ tk_out[2][2] # <<>>
    /\ tokens[Len(tokens)] \notin PATH_OPS

\* ---------------------------------------------------------------- stroke interpreter
\* parsing.py 5
YELLOW == <<"1", "0.952941", "0.658824">>

\* parsing.py 199, the only matrix accepted
IDENTITY_CM == <<"1", "0", "0", "1", "0", "0">>

\* float(s) on the numeric literals of the modelled streams
FloatOf(s) ==
    CASE s = "0" -> 0
      [] s = "4" -> 4
      [] s = "10" -> 10
      [] s = "10.0" -> 10

\* int(s) on the style literals of the modelled streams
IntOf(s) ==
    CASE s = "1" -> 1
      [] s = "2" -> 2
      [] s = "3" -> 3
      [] s = "4" -> 4

\* parsing.py 114
CAP_STYLES == [i \in {1, 2, 3} |-> CASE i = 1 -> "round" [] i = 2 -> "flat" [] i = 3 -> "square"]

\* parsing.py 116
JOIN_STYLES == [i \in {1, 2, 3} |-> CASE i = 1 -> "round" [] i = 2 -> "mitre" [] i = 3 -> "bevel"]

\* The records the for loop of line 159 may take from tokenize_graphics: any
\* of these, in any order.  Colours: the exact triple, one that differs in
\* the last digit, one that is the same number spelled differently.
InRecords ==
    {<<"RG", YELLOW>>,
     <<"RG", <<"1", "0.952941", "0.658825">>>>,
     <<"RG", <<"1.0", "0.952941", "0.658824">>>>,
     <<"m", <<"0", "0">>>>, <<"m", <<"10.0", "0">>>>,
     <<"l", <<"0", "0">>>>, <<"l", <<"10", "0">>>>,
     <<"w", <<"10">>>>, <<"w", <<"4">>>>,
     <<"J", <<"1">>>>, <<"J", <<"2">>>>, <<"J", <<"3">>>>, <<"J", <<"4">>>>,
     <<"j", <<"1">>>>, <<"j", <<"2">>>>, <<"j", <<"3">>>>, <<"j", <<"4">>>>,
     <<"S", <<>>>>,
     <<"cm", IDENTITY_CM>>,
     <<"cm", <<"1", "0", "0", "1", "0", "10">>>>,
     <<"cm", <<"1.0", "0", "0", "1", "0", "0">>>>,
     <<"q", <<>>>>}

\* line 160
IsYellowRG(rec) == rec[1] = "RG" /\ rec[2] = YELLOW

\* line 162, the truth value of current_line: None and [] are false
Truthy(line) == line # None /\ Val(line) # <<>>

\* line 161
ArmedLine == Some(<<None>>)

\* LineAfterStroke with the line re-opened instead of cleared
LineAfterStroke_Reopened == Some(<<None>>)

\* line 194, current_line after a stroke
LineAfterStroke == None

\* IsIdentity looking at the four scale and shear entries only
IsIdentity_NoTranslation(a) == SubSeq(a, 1, 4) = SubSeq(IDENTITY_CM, 1, 4)

\* line 199
IsIdentity(a) == a = IDENTITY_CM

\* lines 177-186: the message of the first assertion that fails, "" if none
\* does.  len(current_line) counts the placeholder of line 161 too.
FailedAssert(line, w, cap, join) ==
    IF w = None THEN "Expected to see a width for the stroke before stroke end."
    ELSE IF cap = None THEN "Expected to see a cap style before stroke end."
    ELSE IF join = None THEN "Expected to see a join style before stroke end."
    ELSE IF ~(Len(Val(line)) > 1) THEN "Invalid line, not enough points."
    ELSE ""

\* line 189, LineString(current_line): shapely builds no geometry from a
\* coordinate list that holds None
LineStringRaises(line) == \E i \in 1..Len(Val(line)) : Val(line)[i] = None

\* ShapeOf with the start point left out of the polyline
ShapeOf_WithoutStart(line, w, cap, join) ==
    [coords |-> Tail(Val(line)), distance |-> Val(w) \div 2,
     cap_style |-> Val(cap), join_style |-> Val(join)]

\* lines 189-191: the Shape, the polyline buffered by width / 2
ShapeOf(line, w, cap, join) ==
    [coords |-> Val(line), distance |-> Val(w) \div 2,
     cap_style |-> Val(cap), join_style |-> Val(join)]

\* The history of records taken, as far as the claims speak of it
HistStep(rec) ==
    /\ rg_seen' = (rg_seen \/ IsYellowRG(rec))
    /\ rg_since_S' = IF IsYellowRG(rec) THEN TRUE
                     ELSE IF rec[1] = "S" THEN FALSE
                     ELSE rg_since_S

\* The for loop takes record rec
Take(rec) ==
    /\ hl_pc = "loop"
    /\ op' = rec[1]
    /\ args' = rec[2]
    /\ HistStep(rec)

\* An exception leaves the generator: nothing else changes
Raise(exc) ==
    /\ hl_pc' = "raised"
    /\ raised' = exc
    /\ yielded' = <<>>
    /\ UNCHANGED <<current_line, width, cap_style, join_style, n_shapes>>

\* A call of highlighter_lines, lines 152-157
InitHl ==
    /\ hl_pc = "loop"
    /\ op = ""
    /\ args = <<>>
    /\ current_line = Some(<<>>)
    /\ width = None
    /\ cap_style = None
    /\ join_style = None
    /\ yielded = <<>>
    /\ n_shapes = 0
    /\ raised = ""
    /\ rg_seen = FALSE
    /\ rg_since_S = FALSE
    /\ RunsIdle
    /\ TokIdle
    /\ ClIdle
    /\ ExIdle

\* lines 160-161
HlArm ==
    \E rec \in InRecords :
        /\ Take(rec)
        /\ IsYellowRG(rec)
        /\ current_line' = ArmedLine
        /\ yielded' = <<>>
        /\ UNCHANGED <<hl_pc, width, cap_style, join_style, n_shapes, raised>>
        /\ UNCHANGED otherThanHl

\* line 162 false: no branch is taken
HlInert ==
    \E rec \in InRecords :
        /\ Take(rec)
        /\ ~IsYellowRG(rec)
        /\ ~Truthy(current_line)
        /\ yielded' = <<>>
        /\ UNCHANGED <<hl_pc, current_line, width, cap_style, join_style, n_shapes, raised>>
        /\ UNCHANGED otherThanHl

\* lines 163-164
HlMove ==
    \E rec \in InRecords :
        /\ Take(rec)
        /\ ~IsYellowRG(rec)
        /\ Truthy(current_line)
        /\ rec[1] = "m"
        /\ current_line' = Some([Val(current_line) EXCEPT
                                   ![1] = Some(<<FloatOf(rec[2][1]), FloatOf(rec[2][2])>>)])
        /\ yielded' = <<>>
        /\ UNCHANGED <<hl_pc, width, cap_style, join_style, n_shapes, raised>>
        /\ UNCHANGED otherThanHl

\* lines 165-167
HlJoin ==
    \E rec \in InRecords :
        /\ Take(rec)
        /\ ~IsYellowRG(rec)
        /\ Truthy(current_line)
        /\ rec[1] = "j"
        /\ LET i_join_style == IntOf(rec[2][1])
           IN IF i_join_style \in DOMAIN JOIN_STYLES
              THEN /\ join_style' = Some(JOIN_STYLES[i_join_style])
                   /\ yielded' = <<>>
                   /\ UNCHANGED <<hl_pc, current_line, width, cap_style, n_shapes, raised>>
              ELSE /\ Raise("KeyError")
                   /\ UNCHANGED join_style
        /\ UNCHANGED otherThanHl

\* lines 168-170
HlCap ==
    \E rec \in InRecords :
        /\ Take(rec)
        /\ ~IsYellowRG(rec)
        /\ Truthy(current_line)
        /\ rec[1] = "J"
        /\ LET i_cap_style == IntOf(rec[2][1])
           IN IF i_cap_style \in DOMAIN CAP_STYLES
              THEN /\ cap_style' = Some(CAP_STYLES[i_cap_style])
                   /\ yielded' = <<>>
                   /\ UNCHANGED <<hl_pc, current_line, width, join_style, n_shapes, raised>>
              ELSE /\ Raise("KeyError")
                   /\ UNCHANGED cap_style
        /\ UNCHANGED otherThanHl

\* lines 171-172
HlWidth ==
    \E rec \in InRecords :
        /\ Take(rec)
        /\ ~IsYellowRG(rec)
        /\ Truthy(current_line)
        /\ rec[1] = "w"
        /\ width' = Some(FloatOf(rec[2][1]))
        /\ yielded' = <<>>
        /\ UNCHANGED <<hl_pc, current_line, cap_style, join_style, n_shapes, raised>>
        /\ UNCHANGED otherThanHl

\* lines 173-174; streams with more than MaxPoints l points in one stroke are
\* not explored
HlLine ==
    \E rec \in InRecords :
        /\ Take(rec)
        /\ ~IsYellowRG(rec)
        /\ Truthy(current_line)
        /\ rec[1] = "l"
        /\ Len(Val(current_line)) - 1 < MaxPoints
        /\ current_line' = Some(Append(Val(current_line),
                                       Some(<<FloatOf(rec[2][1]), FloatOf(rec[2][2])>>)))
        /\ yielded' = <<>>
        /\ UNCHANGED <<hl_pc, width, cap_style, join_style, n_shapes, raised>>
        /\ UNCHANGED otherThanHl

\* lines 175-186: S with an assertion failing
HlStrokeAssertFails ==
    \E rec \in InRecords :
        /\ Take(rec)
        /\ ~IsYellowRG(rec)
        /\ Truthy(current_line)
        /\ rec[1] = "S"
        /\ FailedAssert(current_line, width, cap_style, join_style) # ""
        /\ Raise("AssertionError")
        /\ UNCHANGED otherThanHl

\* lines 175-189: S with the assertions passed and LineString raising
HlStrokeLineStringFails ==
    \E rec \in InRecords :
        /\ Take(rec)
        /\ ~IsYellowRG(rec)
        /\ Truthy(current_line)
        /\ rec[1] = "S"
        /\ FailedAssert(current_line, width, cap_style, join_style) = ""
        /\ LineStringRaises(current_line)
        /\ Raise("LineStringError")
        /\ UNCHANGED otherThanHl

\* lines 175-197: S yields a Shape and resets the state; streams with more
\* than MaxShapes strokes are not explored
HlStrokeYield ==
    \E rec \in InRecords :
        /\ Take(rec)
        /\ ~IsYellowRG(rec)
        /\ Truthy(current_line)
        /\ rec[1] = "S"
        /\ FailedAssert(current_line, width, cap_style, join_style) = ""
        /\ ~LineStringRaises(current_line)
        /\ n_shapes < MaxShapes
        /\ yielded' = <<ShapeOf(current_line, width, cap_style, join_style)>>
        /\ n_shapes' = n_shapes + 1
        /\ current_line' = LineAfterStroke
        /\ width' = None
        /\ cap_style' = None
        /\ join_style' = None
        /\ UNCHANGED <<hl_pc, raised>>
        /\ UNCHANGED otherThanHl

\* lines 198-202
HlTransform ==
    \E rec \in InRecords :
        /\ Take(rec)
        /\ ~IsYellowRG(rec)
        /\ Truthy(current_line)
        /\ rec[1] = "cm"
        /\ IF IsIdentity(rec[2])
           THEN /\ yielded' = <<>>
                /\ UNCHANGED <<hl_pc, current_line, width, cap_style, join_style,
                               n_shapes, raised>>
           ELSE Raise("NotImplementedError")
        /\ UNCHANGED otherThanHl

\* lines 203-204
HlOther ==
    \E rec \in InRecords :
        /\ Take(rec)
        /\ ~IsYellowRG(rec)
        /\ Truthy(current_line)
        /\ rec[1] \notin {"m", "j", "J", "w", "l", "S", "cm"}
        /\ yielded' = <<>>
        /\ UNCHANGED <<hl_pc, current_line, width, cap_style, join_style, n_shapes, raised>>
        /\ UNCHANGED otherThanHl

\* the records are exhausted and the generator returns
HlEnd ==
    /\ hl_pc = "loop"
    /\ hl_pc' = "done"
    /\ yielded' = <<>>
    /\ UNCHANGED <<op, args, current_line, width, cap_style, join_style, n_shapes,
                   raised, rg_seen, rg_since_S>>
    /\ UNCHANGED otherThanHl

NextHl ==
    \/ HlArm
    \/ HlInert
    \/ HlMove
    \/ HlJoin
    \/ HlCap
    \/ HlWidth
    \/ HlLine
    \/ HlStrokeAssertFails
    \/ HlStrokeLineStringFails
    \/ HlStrokeYield
    \/ HlTransform
    \/ HlOther
    \/ HlEnd

SpecHl == InitHl /\ [][NextHl]_vars

\* ---------------------------------------------------------------- claims on the stroke interpreter
\* This step takes a record from the stream (it is no end of the stream)
TakesRecord == hl_pc = "loop" /\ hl_pc' # "done"

\* This step leaves the interpreter as it was and raises nothing
InertStep ==
    /\ UNCHANGED <<hl_pc, current_line, width, cap_style, join_style, n_shapes, raised>>
    /\ yielded' = <<>>

\* The number of Points (not the placeholder) in the current line
NumPoints(line) ==
    IF line = None THEN 0
    ELSE Cardinality({i \in 1..Len(Val(line)) : Val(line)[i] # None})

\* C3 as stated: a Shape is emitted exactly when S is processed while armed
\* (a matching RG seen, no S since); such an S emits exactly one Shape and
\* disarms, operators are inert until the next matching RG, and without a
\* matching RG no Shape is ever emitted.
C3_Original_ShapeExactlyOnArmedS ==
    [][TakesRecord =>
          /\ (yielded' # <<>>) <=> (op' = "S" /\ rg_since_S)
          /\ yielded' # <<>> => (Len(yielded') = 1 /\ ~rg_since_S' /\ ~Truthy(current_line'))
          /\ (~rg_since_S /\ ~IsYellowRG(<<op', args'>>)) => InertStep
          /\ ~rg_seen' => n_shapes' = 0]_vars

\* C3 amended: a Shape is emitted only when S is processed while armed; such
\* an S either emits exactly one Shape and disarms, or fails fatally and emits
\* none; while not armed every operator other than a matching RG is inert;
\* without a matching RG no Shape is ever emitted.
C3_ShapeOnlyOnArmedS ==
    [][TakesRecord =>
          /\ yielded' # <<>> => (op' = "S" /\ rg_since_S)
          /\ (op' = "S" /\ rg_since_S) =>
                \/ /\ Len(yielded') = 1
                   /\ n_shapes' = n_shapes + 1
                   /\ raised' = ""
                   /\ ~rg_since_S'
                   /\ ~Truthy(current_line')
                \/ /\ yielded' = <<>>
                   /\ n_shapes' = n_shapes
                   /\ raised' # ""
                   /\ hl_pc' = "raised"
          /\ (~rg_since_S /\ ~IsYellowRG(<<op', args'>>)) => InertStep
          /\ ~rg_seen' => n_shapes' = 0]_vars

\* A Shape was emitted, and an S taken after it found the interpreter disarmed
C3_Witness ==
    /\ hl_pc = "loop"
    /\ n_shapes = 1
    /\ op = "S"
    /\ yielded = <<>>
    /\ current_line = None
    /\ raised = ""

\* C4: an S processed while armed emits a Shape only if width, cap style and
\* join style are set and at least 2 Points were accumulated; otherwise the
\* malformed-stroke check (the assertions) fails and no Shape is emitted.
C4_MalformedStrokeFailsCheck ==
    [][(TakesRecord /\ op' = "S" /\ rg_since_S) =>
          LET malformed == \/ width = None
                           \/ cap_style = None
                           \/ join_style = None
                           \/ NumPoints(current_line) < 2
          IN /\ yielded' # <<>> => ~malformed
             /\ malformed => (raised' = "AssertionError" /\ yielded' = <<>>)]_vars

\* C6: a cm processed while armed raises the unsupported-transform error iff
\* its arguments are not the identity matrix 1 0 0 1 0 0; an identity cm
\* changes nothing; a cm processed while not armed is ignored.
C6_TransformRaisesIffNotIdentity ==
    [][(TakesRecord /\ op' = "cm") =>
          IF rg_since_S
          THEN /\ (raised' = "NotImplementedError") <=> (args' # <<"1", "0", "0", "1", "0", "0">>)
               /\ raised' # "" => (hl_pc' = "raised" /\ yielded' = <<>>)
               /\ args' = <<"1", "0", "0", "1", "0", "0">> => (InertStep /\ rg_since_S')
          ELSE InertStep /\ ~rg_since_S']_vars

\* A translation matrix met while armed ended the generator
C6_Witness ==
    /\ hl_pc = "raised"
    /\ raised = "NotImplementedError"
    /\ op = "cm"
    /\ args = <<"1", "0", "0", "1", "0", "10">>
    /\ Truthy(current_line)

\* C11: current_line, width, cap_style and join_style are reset together:
\* when a matching RG re-initialises current_line or S clears it, width, cap
\* style and join style are unset too, so no value set by a w, J or j before
\* the most recent matching RG is left for the Shape that S emits.
C11_ParametersResetWithLine ==
    [][TakesRecord =>
          /\ IsYellowRG(<<op', args'>>) =>
                (current_line' = Some(<<None>>) /\ width' = None
                 /\ cap_style' = None /\ join_style' = None)
          /\ yielded' # <<>> =>
                (current_line' = None /\ width' = None
                 /\ cap_style' = None /\ join_style' = None)]_vars

\* The Point that an m or l record with arguments a names
PointOf(a) == Some(<<FloatOf(a[1]), FloatOf(a[2])>>)

\* C12 as stated: while armed the start point is the point of the last m seen
\* before the first l of the bracket: an m with no l before it replaces the
\* start point, an m after an l leaves it; every l appends its point; no m
\* changes the points appended by l; the polyline of the emitted Shape is the
\* start point followed by the l points in order.
C12_Original_StartIsLastMoveBeforeDrawing ==
    [][(TakesRecord /\ rg_since_S /\ ~IsYellowRG(<<op', args'>>)) =>
          LET line == Val(current_line)
          IN /\ op' = "m" =>
                   /\ Tail(Val(current_line')) = Tail(line)
                   /\ Len(line) = 1 => Val(current_line')[1] = PointOf(args')
                   /\ (Len(line) > 1 /\ line[1] # None) =>
                         Val(current_line')[1] = line[1]
             /\ op' = "l" => Val(current_line') = Append(line, PointOf(args'))
             /\ yielded' # <<>> => yielded'[1].coords = line]_vars

\* C12 amended: while armed every m replaces the start point, also an m that
\* comes after an l; every l appends its point; no m changes the points
\* appended by l; the polyline of the emitted Shape is the start point
\* followed by the l points in order.
C12_StartIsLastMove ==
    [][(TakesRecord /\ rg_since_S /\ ~IsYellowRG(<<op', args'>>)) =>
          LET line == Val(current_line)
          IN /\ op' = "m" =>
                   /\ Tail(Val(current_line')) = Tail(line)
                   /\ Val(current_line')[1] = PointOf(args')
             /\ op' = "l" => Val(current_line') = Append(line, PointOf(args'))
             /\ yielded' # <<>> => yielded'[1].coords = line]_vars

\* An m taken after two l points set the start point and left the l points
C12_Witness ==
    /\ hl_pc = "loop"
    /\ op = "m"
    /\ args = <<"10.0", "0">>
    /\ current_line = Some(<<Some(<<10, 0>>), Some(<<0, 0>>), Some(<<10, 0>>)>>)

\* ---------------------------------------------------------------- classifier
\* A highlight polygon, as far as classification reads it: the areas enclosed
\* by its interior rings, in ring order
HoleAreas == {1, 2, 3}
PolyKinds == SeqsUpTo(HoleAreas, MaxHoles)

\* The thresholds of the modelled calls: a hole may be below, at or above one
ClipThresholds == {2}

\* AreaExceeds with the comparison inclusive
AreaExceeds_Inclusive(area, threshold) == area >= threshold

\* line 49, the area test
AreaExceeds(area, threshold) == area > threshold

\* lines 40-51
ClassifyHighlight(highlight_poly, threshold) ==
    IF Len(highlight_poly) = 1 /\ AreaExceeds(highlight_poly[1], threshold)
    THEN "SELECTION"
    ELSE "TEXTUAL"

RECURSIVE ClassifyAcc(_, _, _, _)
\* lines 58-63, the loop over the polys left, with both lists so far
ClassifyAcc(ps, threshold, text, sel) ==
    IF ps = <<>> THEN <<text, sel>>
    ELSE IF ClassifyHighlight(Head(ps), threshold) = "TEXTUAL"
         THEN ClassifyAcc(Tail(ps), threshold, Append(text, Head(ps)), sel)
         ELSE ClassifyAcc(Tail(ps), threshold, text, Append(sel, Head(ps)))

\* lines 54-64
ClassifyHighlights(ps, threshold) == ClassifyAcc(ps, threshold, <<>>, <<>>)

\* A call of classify_highlights on at most MaxPolys polys
InitCl ==
    /\ cl_pc = "loop"
    /\ polys \in SeqsUpTo(PolyKinds, MaxPolys)
    /\ clipping_area_threshold \in ClipThresholds
    /\ cl_pos = 0
    /\ text_highlights = <<>>
    /\ selection_highlights = <<>>
    /\ RunsIdle
    /\ TokIdle
    /\ HlIdle
    /\ ExIdle

\* lines 58-61
ClTextual ==
    /\ cl_pc = "loop"
    /\ cl_pos < Len(polys)
    /\ LET poly == polys[cl_pos + 1]
       IN /\ ClassifyHighlight(poly, clipping_area_threshold) = "TEXTUAL"
          /\ text_highlights' = Append(text_highlights, poly)
    /\ cl_pos' = cl_pos + 1
    /\ UNCHANGED <<cl_pc, polys, clipping_area_threshold, selection_highlights>>
    /\ UNCHANGED otherThanCl

\* lines 58-59, 62-63
ClSelection ==
    /\ cl_pc = "loop"
    /\ cl_pos < Len(polys)
    /\ LET poly == polys[cl_pos + 1]
       IN /\ ClassifyHighlight(poly, clipping_area_threshold) = "SELECTION"
          /\ selection_highlights' = Append(selection_highlights, poly)
    /\ cl_pos' = cl_pos + 1
    /\ UNCHANGED <<cl_pc, polys, clipping_area_threshold, text_highlights>>
    /\ UNCHANGED otherThanCl

\* line 64
ClReturn ==
    /\ cl_pc = "loop"
    /\ cl_pos = Len(polys)
    /\ cl_pc' = "done"
    /\ UNCHANGED <<polys, clipping_area_threshold, cl_pos, text_highlights,
                   selection_highlights>>
    /\ UNCHANGED otherThanCl

NextCl ==
    \/ ClTextual
    \/ ClSelection
    \/ ClReturn

SpecCl == InitCl /\ [][NextCl]_vars

\* ---------------------------------------------------------------- claims on the classifier
\* A Shape is a Selection, in the words of the claim: exactly one interior
\* ring, of area strictly above the threshold
OneBigHole(poly) == Len(poly) = 1 /\ poly[1] > clipping_area_threshold

\* C8: classify_highlight returns Selection iff the Shape has exactly one
\* interior ring whose area is strictly greater than the threshold; every
\* Shape goes to exactly one of the two lists, in input order.
C8_SelectionIffOneBigHole ==
    cl_pc \in {"loop", "done"} =>
        LET taken == SubSeq(polys, 1, cl_pos)
        IN /\ selection_highlights = SelectSeq(taken, OneBigHole)
           /\ text_highlights = SelectSeq(taken, LAMBDA q : ~OneBigHole(q))
           /\ Len(text_highlights) + Len(selection_highlights) = cl_pos
           /\ cl_pc = "done" => cl_pos = Len(polys)

\* A one-hole Shape at the threshold went to the text list after a one-hole
\* Shape above it went to the selection list
C8_Witness ==
    /\ cl_pc = "done"
    /\ polys = <<(<<3>>), (<<2>>)>>
    /\ clipping_area_threshold = 2
    /\ selection_highlights = <<(<<3>>)>>
    /\ text_highlights = <<(<<2>>)>>

\* ---------------------------------------------------------------- run merger
RECURSIVE GroupByAcc(_, _)
\* itertools.groupby over a sequence of <<key, item>> pairs whose key is the
\* first component: consecutive pairs with equal keys form one group
\* <<key, pairs>>; the accumulator holds the groups closed so far.
GroupByAcc(s, acc) ==
    IF s = <<>> THEN acc
    ELSE LET p == Head(s)
             n == Len(acc)
         IN IF n > 0 /\ acc[n][1] = p[1]
            THEN GroupByAcc(Tail(s), [acc EXCEPT ![n] = <<acc[n][1], Append(acc[n][2], p)>>])
            ELSE GroupByAcc(Tail(s), Append(acc, <<p[1], <<p>>>>))

GroupBy(s) == GroupByAcc(s, <<>>)

\* map(itemgetter(k), s)
MapItem(k, s) == [i \in 1..Len(s) |-> s[i][k]]

\* word_boxes keyed by is_highlighted: the page's words are identified by
\* their position 1..n, the key of word i is words[i]
KeyedWords(ws) == [i \in 1..Len(ws) |-> <<ws[i], i>>]

\* lines 156-161
Runs(ws) ==
    LET g == GroupBy(KeyedWords(ws))
    IN [i \in 1..Len(g) |-> <<g[i][1], MapItem(2, g[i][2])>>]

\* MarkOf with the threshold exclusive
MarkOf_Exclusive(is_selected, run, skip) == is_selected \/ Len(run) < skip

\* line 164, the mark of one run
MarkOf(is_selected, run, skip) == is_selected \/ Len(run) <= skip

\* lines 163-165
MarkedSkips(rs, skip) ==
    [i \in 1..Len(rs) |-> <<MarkOf(rs[i][1], rs[i][2], skip), rs[i][2]>>]

\* lines 167-171
MergedRuns(ms) ==
    LET g == GroupBy(ms)
        kept == SelectSeq(g, LAMBDA grp : grp[1])
    IN [i \in 1..Len(kept) |-> Flatten(MapItem(2, kept[i][2]))]

\* The separator " " of line 173; words are 1..n, so 0 is no word
Space == 0

RECURSIVE JoinWords(_)
\* " ".join(run): the words with one separator between neighbours
JoinWords(run) ==
    IF run = <<>> THEN <<>>
    ELSE IF Len(run) = 1 THEN run
    ELSE <<Head(run), Space>> \o JoinWords(Tail(run))

\* line 173
JoinRuns(mr) == [i \in 1..Len(mr) |-> JoinWords(mr[i])]

\* The words of an output string, back from the joined form
WordsOf(str) == SelectSeq(str, LAMBDA t : t # Space)

\* A call of extract_text_highlights: any page of at most MaxWords words,
\* any max_skip_len in 0..MaxSkip
InitRuns ==
    /\ words \in SeqsUpTo(BOOLEAN, MaxWords)
    /\ max_skip_len \in 0..MaxSkip
    /\ rm_pc = "runs"
    /\ runs = <<>>
    /\ marked_skips = <<>>
    /\ merged_runs = <<>>
    /\ rm_result = <<>>
    /\ TokIdle
    /\ HlIdle
    /\ ClIdle
    /\ ExIdle

ComputeRuns ==
    /\ rm_pc = "runs"
    /\ runs' = Runs(words)
    /\ rm_pc' = "mark"
    /\ UNCHANGED <<words, max_skip_len, marked_skips, merged_runs, rm_result>>
    /\ UNCHANGED otherThanRuns

ComputeMarkedSkips ==
    /\ rm_pc = "mark"
    /\ marked_skips' = MarkedSkips(runs, max_skip_len)
    /\ rm_pc' = "merge"
    /\ UNCHANGED <<words, max_skip_len, runs, merged_runs, rm_result>>
    /\ UNCHANGED otherThanRuns

ComputeMergedRuns ==
    /\ rm_pc = "merge"
    /\ merged_runs' = MergedRuns(marked_skips)
    /\ rm_pc' = "join"
    /\ UNCHANGED <<words, max_skip_len, runs, marked_skips, rm_result>>
    /\ UNCHANGED otherThanRuns

ReturnJoined ==
    /\ rm_pc = "join"
    /\ rm_result' = JoinRuns(merged_runs)
    /\ rm_pc' = "done"
    /\ UNCHANGED <<words, max_skip_len, runs, marked_skips, merged_runs>>
    /\ UNCHANGED otherThanRuns

NextRuns ==
    \/ ComputeRuns
    \/ ComputeMarkedSkips
    \/ ComputeMergedRuns
    \/ ReturnJoined

SpecRuns == InitRuns /\ [][NextRuns]_vars

\* ---------------------------------------------------------------- claims on the run merger
\* Word w occurs in output string number s
InString(w, s) == \E k \in 1..Len(rm_result[s]) : rm_result[s][k] = w

\* Output string number s holds the words i, i+1, .., j next to each other, in
\* that order
HoldsSpan(i, j, s) ==
    LET ws == WordsOf(rm_result[s])
    IN \E k \in 1..Len(ws) :
          /\ k + (j - i) <= Len(ws)
          /\ \A d \in 0..(j - i) : ws[k + d] = i + d

\* Words i < j are highlighted and exactly the words between them form a
\* non-empty run of unhighlighted words
GapBetween(i, j) ==
    /\ i + 1 < j
    /\ words[i]
    /\ words[j]
    /\ \A k \in (i + 1)..(j - 1) : ~words[k]

\* C1: two highlighted words separated by a maximal run of unhighlighted words
\* are in the same output string, gap words included in page order, iff the
\* gap is at most max_skip_len long; a longer gap puts them in different
\* output strings and its words are in no output string.
C1_GapBridgedIffWithinSkip ==
    rm_pc = "done" =>
        \A i \in 1..Len(words) : \A j \in 1..Len(words) :
            GapBetween(i, j) =>
                LET gap == j - i - 1
                    out == 1..Len(rm_result)
                IN /\ (\E s \in out : InString(i, s) /\ InString(j, s)) <=> gap <= max_skip_len
                   /\ gap <= max_skip_len => \E s \in out : HoldsSpan(i, j, s)
                   /\ gap > max_skip_len =>
                        /\ \E s \in out : \E t \in out :
                              s # t /\ InString(i, s) /\ InString(j, t)
                        /\ \A k \in (i + 1)..(j - 1) : \A s \in out : ~InString(k, s)

\* The example of the claim: [T,T,F,F,F,T,T] with max_skip_len = 3 gives one
\* string of all 7 words
C1_Witness ==
    /\ rm_pc = "done"
    /\ words = <<TRUE, TRUE, FALSE, FALSE, FALSE, TRUE, TRUE>>
    /\ max_skip_len = 3
    /\ Len(rm_result) = 1
    /\ WordsOf(rm_result[1]) = <<1, 2, 3, 4, 5, 6, 7>>

\* C2: a page with no highlighted word yields no output string, whatever its
\* word count and max_skip_len.
C2_NoHighlightNoOutput ==
    (rm_pc = "done" /\ \A i \in 1..Len(words) : ~words[i]) => rm_result = <<>>

\* C10: every output string begins and ends with a highlighted word (leading
\* and trailing unhighlighted runs are never merged).
C10_StringsStartAndEndHighlighted ==
    (rm_pc = "done" /\ \E i \in 1..Len(words) : words[i]) =>
        \A s \in 1..Len(rm_result) :
            LET ws == WordsOf(rm_result[s])
            IN /\ ws # <<>>
               /\ words[ws[1]]
               /\ words[ws[Len(ws)]]

\* ---------------------------------------------------------------- extract_highlights
\* extract.py 18, the member names of WordSelectionMethod
WordSelectionMethod == {"CENTROID", "AREA_RATIO"}

\* The policy names of the modelled calls: the two members and a name that is
\* no member
MethodNames == WordSelectionMethod \cup {"NEAREST"}

\* extract.py 19, DEFAULT_AREA_RATIO = 0.5 as the fraction 1 / 2
AREA_RATIO_NUM == 1
AREA_RATIO_DEN == 2

\* A word of a page against the page's text highlight, as far as
\* word_is_highlighted reads it: whether the highlight contains the centroid
\* of the word box, the area of their overlap and the area of the box.  Fully
\* covered; untouched; half covered with the centroid inside.
WordKinds ==
    {[centroid_inside |-> TRUE, overlap |-> 2, area |-> 2],
     [centroid_inside |-> FALSE, overlap |-> 0, area |-> 2],
     [centroid_inside |-> TRUE, overlap |-> 1, area |-> 2]}

\* The merged highlight polys of the modelled pages: none (the page has no
\* highlighter line), or one or two of a poly without hole and a poly with one
\* hole of area 3
PagePolyLists ==
    {<<>>,
     <<(<<>>)>>, <<(<<3>>)>>,
     <<(<<>>), (<<>>)>>, <<(<<>>), (<<3>>)>>, <<(<<3>>), (<<>>)>>, <<(<<3>>), (<<3>>)>>}

\* The max_skip_len values of the modelled calls
SkipLens == {0, 1}

\* lines 22-34; the ValueError of line 34 is the value "ValueError"
WordIsHighlighted(method, w) ==
    IF method = "CENTROID" THEN w.centroid_inside
    ELSE IF method = "AREA_RATIO" THEN w.overlap * AREA_RATIO_DEN > AREA_RATIO_NUM * w.area
    ELSE "ValueError"

\* line 214, WordSelectionMethod[name] finds a member
IsMember(name) == name \in WordSelectionMethod

\* lines 145-173 on the words ws of a page
ExtractTextHighlights(ws, method, skip) ==
    LET flags == [i \in 1..Len(ws) |-> WordIsHighlighted(method, ws[i])]
    IN JoinRuns(MergedRuns(MarkedSkips(Runs(flags), skip)))

\* lines 120-128: one clip per selection poly
ExtractClips(selection_polys) == [i \in 1..Len(selection_polys) |-> selection_polys[i]]

\* d[k].extend(v) on a defaultdict(list): a missing key is created with []
Extend(d, k, v) == [d EXCEPT ![k] = IF @ = None THEN Some(v) ELSE Some(Val(@) \o v)]

\* lines 204-208
ClipsAfter(sel) ==
    IF sel # <<>> THEN Extend(page_clips, page_no + 1, ExtractClips(sel)) ELSE page_clips

\* A call of extract_highlights, lines 184-185; debug_render is off
InitEx ==
    /\ ex_pc = "loop"
    /\ word_selection_method \in MethodNames
    /\ ex_max_skip_len \in SkipLens
    /\ clip_area_threshold \in ClipThresholds
    /\ page_no = 0
    /\ page_polys = <<>>
    /\ page_text_highlights = [p \in 1..MaxPages |-> None]
    /\ page_clips = [p \in 1..MaxPages |-> None]
    /\ ex_raised = ""
    /\ RunsIdle
    /\ TokIdle
    /\ HlIdle
    /\ ClIdle

\* lines 186-189: the next page has no highlighter line
ExSkipPage ==
    /\ ex_pc = "loop"
    /\ page_no < MaxPages
    /\ \E ps \in PagePolyLists :
          /\ ps = <<>>
          /\ page_polys' = ps
    /\ page_no' = page_no + 1
    /\ UNCHANGED <<ex_pc, word_selection_method, ex_max_skip_len, clip_area_threshold,
                   page_text_highlights, page_clips, ex_raised>>
    /\ UNCHANGED otherThanEx

\* lines 186-210: the next page has highlights and none of them is textual
ExPageNoText ==
    /\ ex_pc = "loop"
    /\ page_no < MaxPages
    /\ \E ps \in PagePolyLists :
          LET cls == ClassifyHighlights(ps, clip_area_threshold)
          IN /\ ps # <<>>
             /\ cls[1] = <<>>
             /\ page_polys' = ps
             /\ page_clips' = ClipsAfter(cls[2])
    /\ page_no' = page_no + 1
    /\ UNCHANGED <<ex_pc, word_selection_method, ex_max_skip_len, clip_area_threshold,
                   page_text_highlights, ex_raised>>
    /\ UNCHANGED otherThanEx

\* lines 186-217: the next page has a textual highlight and the policy name
\* is a member
ExPageText ==
    /\ ex_pc = "loop"
    /\ page_no < MaxPages
    /\ \E ps \in PagePolyLists : \E ws \in SeqsUpTo(WordKinds, MaxPageWords) :
          LET cls == ClassifyHighlights(ps, clip_area_threshold)
          IN /\ ps # <<>>
             /\ cls[1] # <<>>
             /\ IsMember(word_selection_method)
             /\ page_polys' = ps
             /\ page_clips' = ClipsAfter(cls[2])
             /\ page_text_highlights' =
                   Extend(page_text_highlights, page_no + 1,
                          ExtractTextHighlights(ws, word_selection_method, ex_max_skip_len))
    /\ page_no' = page_no + 1
    /\ UNCHANGED <<ex_pc, word_selection_method, ex_max_skip_len, clip_area_threshold,
                   ex_raised>>
    /\ UNCHANGED otherThanEx

\* lines 186-214: the next page has a textual highlight and the policy name
\* is no member: the lookup of line 214 raises KeyError
ExPageUnknownMethod ==
    /\ ex_pc = "loop"
    /\ page_no < MaxPages
    /\ \E ps \in PagePolyLists :
          LET cls == ClassifyHighlights(ps, clip_area_threshold)
          IN /\ ps # <<>>
             /\ cls[1] # <<>>
             /\ ~IsMember(word_selection_method)
             /\ page_polys' = ps
             /\ page_clips' = ClipsAfter(cls[2])
    /\ page_no' = page_no + 1
    /\ ex_pc' = "raised"
    /\ ex_raised' = "KeyError"
    /\ UNCHANGED <<word_selection_method, ex_max_skip_len, clip_area_threshold,
                   page_text_highlights>>
    /\ UNCHANGED otherThanEx

\* line 219: the document has no further page
ExReturn ==
    /\ ex_pc = "loop"
    /\ ex_pc' = "returned"
    /\ UNCHANGED <<word_selection_method, ex_max_skip_len, clip_area_threshold, page_no,
                   page_polys, page_text_highlights, page_clips, ex_raised>>
    /\ UNCHANGED otherThanEx

NextEx ==
    \/ ExSkipPage
    \/ ExPageNoText
    \/ ExPageText
    \/ ExPageUnknownMethod
    \/ ExReturn

SpecEx == InitEx /\ [][NextEx]_vars

\* ---------------------------------------------------------------- claims on extract_highlights
\* C5: a page number is a key of the text mapping only if at least one text
\* run was produced for the page, a key of the clip mapping only if at least
\* one Selection region was found on it, and a page without Shapes is a key of
\* neither.
C5_KeysOnlyForPagesWithResults ==
    \A p \in 1..MaxPages :
        /\ page_text_highlights[p] # None => Len(Val(page_text_highlights[p])) >= 1
        /\ page_clips[p] # None => Len(Val(page_clips[p])) >= 1
        /\ (p = page_no /\ page_polys = <<>>) =>
              (page_text_highlights[p] = None /\ page_clips[p] = None)

\* C9: with a policy name outside {CENTROID, AREA_RATIO} the error is raised
\* for every document and before any page result is accumulated: once a page
\* has been taken the call has raised and both mappings are empty.
C9_UnknownMethodAlwaysRaises ==
    (word_selection_method \notin {"CENTROID", "AREA_RATIO"} /\ page_no >= 1) =>
        /\ ex_pc = "raised"
        /\ \A p \in 1..MaxPages : page_text_highlights[p] = None /\ page_clips[p] = None

====
